---- MODULE Spec2Model ----
(***************************************************************************)
(* qtrader: the position ledger (types.py), the paper broker               *)
(* (broker/paper.py), the risk overlay (risk/manager.py) and the           *)
(* bar-by-bar loop (engine/backtest.py).                                   *)
(*                                                                         *)
(* Python floats are modelled as exact extended rationals <<n, d>>:        *)
(*   d > 0  the rational n/d in lowest terms,                              *)
(*   d = 0  the IEEE specials: <<1,0>> = +inf, <<-1,0>> = -inf,            *)
(*          <<0,0>> = nan.                                                 *)
(* Rounding of float64 is not modelled.  Share quantities are whole        *)
(* numbers (TLA+ integers).  A float that may be None is <<0,-1>> when it   *)
(* is None; an object that may be None is a sequence of length 0 or 1.     *)
(***************************************************************************)
EXTENDS Integers, Sequences, FiniteSets, TLC

\* ------------------------------------------------------------------ bounds
MaxCalls == 3
MaxBars == 3

\* ------------------------------------------------------------ float values
None == <<0, -1>>
NaN == <<0, 0>>
PosInf == <<1, 0>>
NegInf == <<-1, 0>>

Abs(x) == IF x < 0 THEN -x ELSE x

Sgn(x) == IF x > 0 THEN 1 ELSE IF x < 0 THEN -1 ELSE 0

RECURSIVE Gcd(_, _)
Gcd(a, b) == IF b = 0 THEN a ELSE Gcd(b, a % b)

Norm(n, d) == LET g == Gcd(Abs(n), d) IN <<n \div g, d \div g>>

R(n) == <<n, 1>>

Frac(n, d) == Norm(n, d)

IsNaN(a) == a = NaN

IsFinite(a) == a[2] > 0

Neg(a) == <<-a[1], a[2]>>

Add(a, b) ==
    IF IsFinite(a) /\ IsFinite(b)
    THEN LET l == (a[2] \div Gcd(a[2], b[2])) * b[2]
         IN  Norm(a[1] * (l \div a[2]) + b[1] * (l \div b[2]), l)
    ELSE IF IsNaN(a) \/ IsNaN(b) THEN NaN
    ELSE IF IsFinite(a) THEN b
    ELSE IF IsFinite(b) THEN a
    ELSE IF a = b THEN a ELSE NaN

Sub(a, b) == Add(a, Neg(b))

Mul(a, b) ==
    IF IsFinite(a) /\ IsFinite(b)
    THEN LET g1 == Gcd(Abs(a[1]), b[2])
             g2 == Gcd(Abs(b[1]), a[2])
         IN  IF a[1] = 0 \/ b[1] = 0 THEN <<0, 1>>
             ELSE <<(a[1] \div g1) * (b[1] \div g2), (a[2] \div g2) * (b[2] \div g1)>>
    ELSE IF IsNaN(a) \/ IsNaN(b) THEN NaN
    ELSE IF a[1] = 0 \/ b[1] = 0 THEN NaN
    ELSE <<Sgn(a[1]) * Sgn(b[1]), 0>>

\* a / b for finite a and finite nonzero b
Div(a, b) == Mul(a, <<Sgn(b[1]) * b[2], Abs(b[1])>>)

\* comparisons are false as soon as one side is nan
Lt(a, b) == /\ ~IsNaN(a)
            /\ ~IsNaN(b)
            /\ a # b
            /\ IF IsFinite(a) /\ IsFinite(b) THEN Sub(a, b)[1] < 0
               ELSE IF IsFinite(a) THEN b = PosInf
               ELSE IF IsFinite(b) THEN a = NegInf
               ELSE a = NegInf /\ b = PosInf

Le(a, b) == ~IsNaN(a) /\ ~IsNaN(b) /\ (a = b \/ Lt(a, b))

Ge(a, b) == Le(b, a)

Gt(a, b) == Lt(b, a)

\* whole shares by truncation toward zero instead of floor
Floor_toward_zero(a) == IF a[1] >= 0 THEN a[1] \div a[2] ELSE -((-a[1]) \div a[2])

\* floor of a finite value, as an integer
Floor(a) == a[1] \div a[2]

\* int(x) of a whole or fractional finite value: truncation toward zero
PyInt(a) == IF a[1] >= 0 THEN a[1] \div a[2] ELSE -((-a[1]) \div a[2])

\* ------------------------------------------------------------- types.py
symbol == "TEST"

BUY == "BUY"

SELL == "SELL"

Fill(order_id, side, quantity, price, commission, slippage) ==
    [order_id |-> order_id, symbol |-> symbol, side |-> side, quantity |-> quantity,
     price |-> price, commission |-> commission, slippage |-> slippage]

Position(quantity, average_price) ==
    [quantity |-> quantity, average_price |-> average_price]

\* update_with_fill without the full-close branch: the average price survives
\* a fill that brings the quantity to zero
update_with_fill_keeps_basis(self, fill) ==
    IF fill.quantity = 0 THEN self
    ELSE LET signed_qty == IF fill.side = BUY THEN fill.quantity ELSE -fill.quantity
             new_quantity == self.quantity + signed_qty
         IN  IF \/ self.quantity = 0
                \/ (self.quantity > 0 /\ signed_qty > 0)
                \/ (self.quantity < 0 /\ signed_qty < 0)
             THEN LET total_cost == Add(Mul(self.average_price, R(Abs(self.quantity))),
                                        Mul(fill.price, R(Abs(signed_qty))))
                  IN  Position(new_quantity, Div(total_cost, R(Abs(new_quantity))))
             ELSE IF \/ (new_quantity > 0 /\ signed_qty > 0)
                     \/ (new_quantity < 0 /\ signed_qty < 0)
             THEN Position(new_quantity, fill.price)
             ELSE Position(new_quantity, self.average_price)

\* update_with_fill averaging with the signed quantities instead of abs()
update_with_fill_signed_cost(self, fill) ==
    IF fill.quantity = 0 THEN self
    ELSE LET signed_qty == IF fill.side = BUY THEN fill.quantity ELSE -fill.quantity
             new_quantity == self.quantity + signed_qty
         IN  IF new_quantity = 0 THEN Position(0, R(0))
             ELSE IF \/ self.quantity = 0
                     \/ (self.quantity > 0 /\ signed_qty > 0)
                     \/ (self.quantity < 0 /\ signed_qty < 0)
             THEN LET total_cost == Add(Mul(self.average_price, R(self.quantity)),
                                        Mul(fill.price, R(signed_qty)))
                  IN  Position(new_quantity, Div(total_cost, R(Abs(new_quantity))))
             ELSE IF \/ (new_quantity > 0 /\ signed_qty > 0)
                     \/ (new_quantity < 0 /\ signed_qty < 0)
             THEN Position(new_quantity, fill.price)
             ELSE Position(new_quantity, self.average_price)

\* update_with_fill testing the reversal on the quantity before the fill:
\* the average price is never reset
update_with_fill_stale_sign(self, fill) ==
    IF fill.quantity = 0 THEN self
    ELSE LET signed_qty == IF fill.side = BUY THEN fill.quantity ELSE -fill.quantity
             new_quantity == self.quantity + signed_qty
         IN  IF new_quantity = 0 THEN Position(0, R(0))
             ELSE IF \/ self.quantity = 0
                     \/ (self.quantity > 0 /\ signed_qty > 0)
                     \/ (self.quantity < 0 /\ signed_qty < 0)
             THEN LET total_cost == Add(Mul(self.average_price, R(Abs(self.quantity))),
                                        Mul(fill.price, R(Abs(signed_qty))))
                  IN  Position(new_quantity, Div(total_cost, R(Abs(new_quantity))))
             ELSE IF \/ (self.quantity > 0 /\ signed_qty > 0)
                     \/ (self.quantity < 0 /\ signed_qty < 0)
             THEN Position(new_quantity, fill.price)
             ELSE Position(new_quantity, self.average_price)

\* update_with_fill averaging the old basis and the fill price without the
\* quantities as weights
update_with_fill_plain_mean(self, fill) ==
    IF fill.quantity = 0 THEN self
    ELSE LET signed_qty == IF fill.side = BUY THEN fill.quantity ELSE -fill.quantity
             new_quantity == self.quantity + signed_qty
         IN  IF new_quantity = 0 THEN Position(0, R(0))
             ELSE IF \/ self.quantity = 0
                     \/ (self.quantity > 0 /\ signed_qty > 0)
                     \/ (self.quantity < 0 /\ signed_qty < 0)
             THEN Position(new_quantity, Div(Add(self.average_price, fill.price), R(2)))
             ELSE IF \/ (new_quantity > 0 /\ signed_qty > 0)
                     \/ (new_quantity < 0 /\ signed_qty < 0)
             THEN Position(new_quantity, fill.price)
             ELSE Position(new_quantity, self.average_price)

\* Position.update_with_fill: the position after the fill
update_with_fill(self, fill) ==
    IF fill.quantity = 0 THEN self
    ELSE LET signed_qty == IF fill.side = BUY THEN fill.quantity ELSE -fill.quantity
             new_quantity == self.quantity + signed_qty
         IN  IF new_quantity = 0 THEN Position(0, R(0))
             ELSE IF \/ self.quantity = 0
                     \/ (self.quantity > 0 /\ signed_qty > 0)
                     \/ (self.quantity < 0 /\ signed_qty < 0)
             THEN LET total_cost == Add(Mul(self.average_price, R(Abs(self.quantity))),
                                        Mul(fill.price, R(Abs(signed_qty))))
                  IN  Position(new_quantity, Div(total_cost, R(Abs(new_quantity))))
             ELSE IF \/ (new_quantity > 0 /\ signed_qty > 0)
                     \/ (new_quantity < 0 /\ signed_qty < 0)
             THEN Position(new_quantity, fill.price)
             ELSE Position(new_quantity, self.average_price)

\* Portfolio.get_or_create_position: the positions mapping after the call
get_or_create_position(positions) ==
    IF symbol \in DOMAIN positions THEN positions
    ELSE [s \in {symbol} |-> Position(0, R(0))]

\* total_equity that forgets the positions
total_equity_cash_only(portfolio, price) == portfolio.cash

\* Portfolio.total_equity with last_prices = {symbol: price}
total_equity(portfolio, price) ==
    IF symbol \in DOMAIN portfolio.positions
    THEN Add(portfolio.cash, Mul(R(portfolio.positions[symbol].quantity), price))
    ELSE portfolio.cash

\* ------------------------------------------------------- broker/paper.py
PaperBroker(initial_cash, slippage_bps, commission_rate) ==
    [initial_cash |-> initial_cash, slippage_bps |-> slippage_bps,
     commission_rate |-> commission_rate,
     portfolio |-> [cash |-> initial_cash, positions |-> <<>>],
     fills |-> <<>>]

\* slippage applied in the trader's favour
slip_price_of_favourable(self, side, price) ==
    LET side_sign == IF side = BUY THEN 1 ELSE -1
    IN  Mul(price, Sub(R(1), Mul(R(side_sign), Div(self.slippage_bps, R(10000)))))

slip_price_of(self, side, price) ==
    LET side_sign == IF side = BUY THEN 1 ELSE -1
    IN  Mul(price, Add(R(1), Mul(R(side_sign), Div(self.slippage_bps, R(10000)))))

\* _apply_trade that records the commission in the Fill without taking it
\* from cash
apply_trade_commission_unpaid(self, side, quantity, price) ==
    IF quantity = 0 THEN self
    ELSE LET side_sign == IF side = BUY THEN 1 ELSE -1
             slip_price == slip_price_of(self, side, price)
             notional == Mul(R(Abs(quantity)), slip_price)
             commission == Mul(notional, self.commission_rate)
             cash_delta == Mul(R(-side_sign), notional)
             positions == get_or_create_position(self.portfolio.positions)
             fill == Fill(Len(self.fills) + 1, side, Abs(quantity), slip_price, commission,
                          Mul(IF Lt(Sub(slip_price, price), R(0))
                              THEN Neg(Sub(slip_price, price)) ELSE Sub(slip_price, price),
                              R(Abs(quantity))))
         IN  [self EXCEPT !.portfolio.cash = Add(@, cash_delta),
                          !.portfolio.positions =
                              [s \in {symbol} |-> update_with_fill(positions[symbol], fill)],
                          !.fills = Append(@, fill)]

\* _apply_trade that leaves order_id at the default of Order.id
apply_trade_default_id(self, side, quantity, price) ==
    IF quantity = 0 THEN self
    ELSE LET side_sign == IF side = BUY THEN 1 ELSE -1
             slip_price == slip_price_of(self, side, price)
             notional == Mul(R(Abs(quantity)), slip_price)
             commission == Mul(notional, self.commission_rate)
             cash_delta == Sub(Mul(R(-side_sign), notional), commission)
             positions == get_or_create_position(self.portfolio.positions)
             fill == Fill(0, side, Abs(quantity), slip_price, commission,
                          Mul(IF Lt(Sub(slip_price, price), R(0))
                              THEN Neg(Sub(slip_price, price)) ELSE Sub(slip_price, price),
                              R(Abs(quantity))))
         IN  [self EXCEPT !.portfolio.cash = Add(@, cash_delta),
                          !.portfolio.positions =
                              [s \in {symbol} |-> update_with_fill(positions[symbol], fill)],
                          !.fills = Append(@, fill)]

\* _apply_trade without the zero-quantity return
apply_trade_no_guard(self, side, quantity, price) ==
    LET side_sign == IF side = BUY THEN 1 ELSE -1
        slip_price == slip_price_of(self, side, price)
        notional == Mul(R(Abs(quantity)), slip_price)
        commission == Mul(notional, self.commission_rate)
        cash_delta == Sub(Mul(R(-side_sign), notional), commission)
        positions == get_or_create_position(self.portfolio.positions)
        fill == Fill(Len(self.fills) + 1, side, Abs(quantity), slip_price, commission, R(0))
    IN  [self EXCEPT !.portfolio.cash = Add(@, cash_delta),
                     !.portfolio.positions =
                         [s \in {symbol} |-> update_with_fill(positions[symbol], fill)],
                     !.fills = Append(@, fill)]

\* PaperBroker._apply_trade: the broker after the call
apply_trade(self, side, quantity, price) ==
    IF quantity = 0 THEN self
    ELSE LET side_sign == IF side = BUY THEN 1 ELSE -1
             slip_price == slip_price_of(self, side, price)
             notional == Mul(R(Abs(quantity)), slip_price)
             commission == Mul(notional, self.commission_rate)
             cash_delta == Sub(Mul(R(-side_sign), notional), commission)
             positions == get_or_create_position(self.portfolio.positions)
             fill == Fill(Len(self.fills) + 1, side, Abs(quantity), slip_price, commission,
                          Mul(IF Lt(Sub(slip_price, price), R(0))
                              THEN Neg(Sub(slip_price, price)) ELSE Sub(slip_price, price),
                              R(Abs(quantity))))
         IN  [self EXCEPT !.portfolio.cash = Add(@, cash_delta),
                          !.portfolio.positions =
                              [s \in {symbol} |-> update_with_fill(positions[symbol], fill)],
                          !.fills = Append(@, fill)]

\* delta_shares computed by rebalance_to_target_weight
delta_shares_of(self, weight, price) ==
    LET equity == total_equity(self.portfolio, price)
        target_value == Mul(weight, equity)
        target_shares == Floor(Div(target_value, price))
        current_shares == get_or_create_position(self.portfolio.positions)[symbol].quantity
    IN  target_shares - PyInt(R(current_shares))

\* PaperBroker.rebalance_to_target_weight: the broker after the call
\* a rebalance that first flattens the position and then opens the target
rebalance_via_flat(self, weight, price) ==
    LET created == [self EXCEPT !.portfolio.positions = get_or_create_position(@)]
        qty == created.portfolio.positions[symbol].quantity
        flat == IF qty = 0 THEN created
                ELSE apply_trade(created, IF qty > 0 THEN SELL ELSE BUY, Abs(qty), price)
        delta_shares == delta_shares_of(flat, weight, price)
    IN  IF delta_shares = 0 THEN flat
        ELSE apply_trade(flat, IF delta_shares > 0 THEN BUY ELSE SELL,
                         Abs(delta_shares), price)

rebalance_to_target_weight(self, weight, price) ==
    LET created == [self EXCEPT !.portfolio.positions = get_or_create_position(@)]
        delta_shares == delta_shares_of(self, weight, price)
    IN  IF delta_shares = 0 THEN created
        ELSE apply_trade(created, IF delta_shares > 0 THEN BUY ELSE SELL,
                         Abs(delta_shares), price)

\* PaperBroker.close_position: one trade of size |quantity| on the opposite
\* side at price (absent from paper.py; called by run_backtest)
close_position(self, price) ==
    LET created == [self EXCEPT !.portfolio.positions = get_or_create_position(@)]
        qty == created.portfolio.positions[symbol].quantity
    IN  apply_trade(created, IF qty > 0 THEN SELL ELSE BUY, Abs(qty), price)

\* the equity as the cash alone
equity_cash_only(self, price) == self.portfolio.cash

\* PaperBroker.equity
equity(self, price) == total_equity(self.portfolio, price)

\* ------------------------------------------------------- risk/manager.py
RiskManager(stop_loss_pct, take_profit_pct) ==
    [stop_loss_pct |-> stop_loss_pct, take_profit_pct |-> take_profit_pct]

\* adjust_weight that forces 0 on every trigger, also for a reversal request
adjust_weight_no_reversal(self, portfolio, price, requested_weight) ==
    IF symbol \notin DOMAIN portfolio.positions THEN requested_weight
    ELSE IF portfolio.positions[symbol].quantity = 0 THEN requested_weight
    ELSE LET position == portfolio.positions[symbol]
             avg_price == position.average_price
             pos_sign == IF position.quantity > 0 THEN 1 ELSE -1
             below(pct) == pct # None /\ Le(price, Mul(avg_price, Sub(R(1), pct)))
             above(pct) == pct # None /\ Ge(price, Mul(avg_price, Add(R(1), pct)))
             stop_loss_hit == IF pos_sign > 0 THEN below(self.stop_loss_pct)
                              ELSE above(self.stop_loss_pct)
             take_profit_hit == IF pos_sign > 0 THEN above(self.take_profit_pct)
                                ELSE below(self.take_profit_pct)
         IN  IF ~IsFinite(avg_price) \/ Le(avg_price, R(0)) THEN requested_weight
             ELSE IF stop_loss_hit \/ take_profit_hit THEN R(0)
             ELSE requested_weight

\* RiskManager.adjust_weight
adjust_weight(self, portfolio, price, requested_weight) ==
    IF symbol \notin DOMAIN portfolio.positions THEN requested_weight
    ELSE IF portfolio.positions[symbol].quantity = 0 THEN requested_weight
    ELSE LET position == portfolio.positions[symbol]
             avg_price == position.average_price
             pos_sign == IF position.quantity > 0 THEN 1 ELSE -1
             weight_sign == Sgn(requested_weight[1])
             below(pct) == pct # None /\ Le(price, Mul(avg_price, Sub(R(1), pct)))
             above(pct) == pct # None /\ Ge(price, Mul(avg_price, Add(R(1), pct)))
             stop_loss_hit == IF pos_sign > 0 THEN below(self.stop_loss_pct)
                              ELSE above(self.stop_loss_pct)
             take_profit_hit == IF pos_sign > 0 THEN above(self.take_profit_pct)
                                ELSE below(self.take_profit_pct)
         IN  IF ~IsFinite(avg_price) \/ Le(avg_price, R(0)) THEN requested_weight
             ELSE IF stop_loss_hit \/ take_profit_hit
             THEN IF weight_sign # 0 /\ weight_sign # pos_sign THEN requested_weight
                  ELSE R(0)
             ELSE requested_weight

\* ----------------------------------------------------- engine/backtest.py
\* Series.ffill and Series.bfill at index k (1-based): inf is not a missing
\* value, nan is
RECURSIVE ffill(_, _)
ffill(series, k) ==
    IF ~IsNaN(series[k]) THEN series[k]
    ELSE IF k = 1 THEN NaN ELSE ffill(series, k - 1)

RECURSIVE bfill(_, _)
bfill(series, k) ==
    IF ~IsNaN(series[k]) THEN series[k]
    ELSE IF k = Len(series) THEN NaN ELSE bfill(series, k + 1)

\* data["close"] = to_numeric(close).ffill().bfill()
sanitize(series) ==
    LET filled == [k \in 1..Len(series) |-> ffill(series, k)]
    IN  [k \in 1..Len(series) |-> bfill(filled, k)]

\* truth value of getattr(stops, name, None)
Truthy(pct) == pct # None /\ pct # R(0)

\* intrabar stop check that exits at the touched extreme of the bar instead
\* of the threshold
intrabar_stop_at_extreme(stops, qty, avg_price, high, low) ==
    LET down(pct) == Mul(avg_price, Sub(R(1), pct))
        up(pct) == Mul(avg_price, Add(R(1), pct))
        stop_loss_hit ==
            /\ Truthy(stops.stop_loss_pct)
            /\ IF qty > 0 THEN IsFinite(low) /\ Le(low, down(stops.stop_loss_pct))
               ELSE IsFinite(high) /\ Ge(high, up(stops.stop_loss_pct))
        take_profit_hit ==
            /\ Truthy(stops.take_profit_pct)
            /\ IF qty > 0 THEN IsFinite(high) /\ Ge(high, up(stops.take_profit_pct))
               ELSE IsFinite(low) /\ Le(low, down(stops.take_profit_pct))
    IN  IF stop_loss_hit THEN <<"stop_loss", IF qty > 0 THEN low ELSE high>>
        ELSE IF take_profit_hit THEN <<"take_profit", IF qty > 0 THEN high ELSE low>>
        ELSE <<"none", None>>

\* intrabar stop check in which the take-profit overwrites the stop-loss
intrabar_stop_profit_first(stops, qty, avg_price, high, low) ==
    LET down(pct) == Mul(avg_price, Sub(R(1), pct))
        up(pct) == Mul(avg_price, Add(R(1), pct))
        stop_loss_price == IF qty > 0 THEN down(stops.stop_loss_pct)
                           ELSE up(stops.stop_loss_pct)
        take_profit_price == IF qty > 0 THEN up(stops.take_profit_pct)
                             ELSE down(stops.take_profit_pct)
        stop_loss_hit ==
            /\ Truthy(stops.stop_loss_pct)
            /\ IF qty > 0 THEN IsFinite(low) /\ Le(low, stop_loss_price)
               ELSE IsFinite(high) /\ Ge(high, stop_loss_price)
        take_profit_hit ==
            /\ Truthy(stops.take_profit_pct)
            /\ IF qty > 0 THEN IsFinite(high) /\ Ge(high, take_profit_price)
               ELSE IsFinite(low) /\ Le(low, take_profit_price)
    IN  IF take_profit_hit THEN <<"take_profit", take_profit_price>>
        ELSE IF stop_loss_hit THEN <<"stop_loss", stop_loss_price>>
        ELSE <<"none", None>>

\* the intrabar stop check of one bar: <<triggered_side, exit_price>>
intrabar_stop(stops, qty, avg_price, high, low) ==
    LET down(pct) == Mul(avg_price, Sub(R(1), pct))
        up(pct) == Mul(avg_price, Add(R(1), pct))
        stop_loss_price == IF qty > 0 THEN down(stops.stop_loss_pct)
                           ELSE up(stops.stop_loss_pct)
        take_profit_price == IF qty > 0 THEN up(stops.take_profit_pct)
                             ELSE down(stops.take_profit_pct)
        stop_loss_hit ==
            /\ Truthy(stops.stop_loss_pct)
            /\ IF qty > 0 THEN IsFinite(low) /\ Le(low, stop_loss_price)
               ELSE IsFinite(high) /\ Ge(high, stop_loss_price)
        take_profit_hit ==
            /\ Truthy(stops.take_profit_pct)
            /\ IF qty > 0 THEN IsFinite(high) /\ Ge(high, take_profit_price)
               ELSE IsFinite(low) /\ Le(low, take_profit_price)
    IN  IF stop_loss_hit THEN <<"stop_loss", stop_loss_price>>
        ELSE IF take_profit_hit THEN <<"take_profit", take_profit_price>>
        ELSE <<"none", None>>

\* step 1 of the loop body: the broker after the intrabar stop processing
stop_step(self, stops, high, low) ==
    IF stops = <<>> THEN self
    ELSE LET created == [self EXCEPT !.portfolio.positions = get_or_create_position(@)]
             position == created.portfolio.positions[symbol]
             qty == position.quantity
             avg_price == position.average_price
             hit == intrabar_stop(stops[1], qty, avg_price, high, low)
         IN  IF qty # 0 /\ IsFinite(avg_price) /\ Gt(avg_price, R(0))
                /\ hit[1] # "none" /\ Gt(hit[2], R(0))
             THEN close_position(created, hit[2])
             ELSE created

\* a weight that is zeroed on a position that a trade has just flattened, so
\* that an exit is not followed by an entry
effective_weight_no_reentry(self, risk, close, weight) ==
    IF /\ self.fills # <<>>
       /\ self.portfolio.positions # <<>>
       /\ self.portfolio.positions[symbol].quantity = 0
    THEN R(0)
    ELSE weight

\* the weight run_backtest hands to rebalance_to_target_weight
effective_weight(self, risk, close, weight) == weight

\* the price at which a bad-close bar is valued (i is 0-based)
equity_price_of(close_column, idx) ==
    IF idx > 0 THEN close_column[(IF idx - 1 > 0 THEN idx - 1 ELSE 0) + 1] ELSE R(0)

\* ------------------------------------------------------------------ state
VARIABLES
    broker,          \* the PaperBroker: fields, portfolio and fill list
    call,            \* the last broker method called, with the portfolio before it
    strategy,        \* run_backtest: the strategy (min_history_bars, stops)
    risk_manager,    \* __main__: the RiskManager built from the command line, or None
    data,            \* run_backtest: the bars (close sanitized, high, low, weight)
    i,               \* run_backtest: index of the current bar (0-based)
    pc,              \* run_backtest: position in the loop body
    bar,             \* run_backtest: the row read for the current bar
    equity_values    \* run_backtest: the recorded equity per bar

vars == <<broker, call, strategy, risk_manager, data, i, pc, bar, equity_values>>

\* the position of the symbol, flat when not created yet
PositionOf(self) == get_or_create_position(self.portfolio.positions)[symbol]

Snapshot(self) ==
    [cash |-> self.portfolio.cash, quantity |-> PositionOf(self).quantity,
     average_price |-> PositionOf(self).average_price, nfills |-> Len(self.fills)]

Call(n, op, side, quantity, price, weight, delta_shares, repeat, before) ==
    [n |-> n, op |-> op, side |-> side, quantity |-> quantity, price |-> price,
     weight |-> weight, delta_shares |-> delta_shares, repeat |-> repeat,
     before |-> before]

NoCall(self) == Call(0, "none", "-", 0, None, None, 0, FALSE, Snapshot(self))

Bar(high, low, close, weight, raw_close, start) ==
    [high |-> high, low |-> low, close |-> close, weight |-> weight,
     raw_close |-> raw_close, start |-> start]

NoBar(self) == Bar(NaN, NaN, NaN, R(0), NaN, Snapshot(self))

\* ----------------------------------------------------- inputs of the model
FrictionSet == {<<R(0), R(0)>>, <<R(100), Frac(1, 100)>>}

CashSet == {R(300)}

PriceSet == {R(90), R(100)}

WeightSet == {R(-1), R(0), Frac(1, 2), R(1)}

QuantitySet == {-1, 0, 1, 2}

\* ------------------------------------------- the broker driven by its API
\* <<initial_cash, slippage_bps, commission_rate>> of the brokers explored:
\* a small account with and without frictions, and the frictionless account
\* of 100000
BrokerConfigSet ==
    { <<c, f[1], f[2]>> : c \in CashSet, f \in FrictionSet } \cup {<<R(100000), R(0), R(0)>>}

InitBroker ==
    /\ \E cfg \in BrokerConfigSet : broker = PaperBroker(cfg[1], cfg[2], cfg[3])
    /\ call = NoCall(broker)
    /\ strategy = [min_history_bars |-> 0, stops |-> <<>>]
    /\ risk_manager = <<>>
    /\ data = <<>>
    /\ i = 0
    /\ pc = "api"
    /\ bar = NoBar(broker)
    /\ equity_values = <<>>

LoopIdle == UNCHANGED <<strategy, risk_manager, data, i, pc, bar, equity_values>>

ApplyTradeCall ==
    /\ pc = "api"
    /\ call.n < MaxCalls
    /\ \E side \in {BUY, SELL}, quantity \in QuantitySet, price \in PriceSet :
          /\ broker' = apply_trade(broker, side, quantity, price)
          /\ call' = Call(call.n + 1, "apply_trade", side, quantity, price, None, 0,
                          FALSE, Snapshot(broker))
    /\ LoopIdle

RebalanceCall ==
    /\ pc = "api"
    /\ call.n < MaxCalls
    /\ \E weight \in WeightSet, price \in PriceSet :
          /\ broker' = rebalance_to_target_weight(broker, weight, price)
          /\ call' = Call(call.n + 1, "rebalance_to_target_weight", "-", 0, price, weight,
                          delta_shares_of(broker, weight, price),
                          /\ call.op = "rebalance_to_target_weight"
                          /\ call.weight = weight
                          /\ call.price = price,
                          Snapshot(broker))
    /\ LoopIdle

ClosePositionCall ==
    /\ pc = "api"
    /\ call.n < MaxCalls
    /\ \E price \in PriceSet :
          /\ broker' = close_position(broker, price)
          /\ call' = Call(call.n + 1, "close_position", "-", 0, price, None, 0,
                          FALSE, Snapshot(broker))
    /\ LoopIdle

NextBroker == ApplyTradeCall \/ RebalanceCall \/ ClosePositionCall

Spec == InitBroker /\ [][NextBroker]_vars

\* ------------------------------------------------- the bar-by-bar loop
\* rows <<close, low, high>> of the input frame
RowSet ==
    { <<NaN, NaN, NaN>>,
      <<PosInf, R(80), R(120)>>,
      <<R(0), R(80), R(120)>>,
      <<R(100), R(80), R(120)>>,
      <<R(90), NaN, NaN>>,
      <<R(100), R(80), R(100)>>,
      <<R(100), R(100), R(120)>> }

LoopWeightSet == {R(-1), R(0), R(1)}

StopsSet == {<<>>, <<RiskManager(Frac(1, 10), Frac(1, 10))>>}

MinBarsSet == {0, 2, 3}

\* run_backtest builds PaperBroker(symbol, initial_cash), which leaves
\* slippage_bps and commission_rate at the class defaults (1.0 and 0.0005);
\* the loop is explored with 100 bps and 0.01, which keep the exact
\* rationals of a stop exit within TLC's 32-bit integers
LoopFriction == <<R(100), Frac(1, 100)>>

InitLoop ==
    /\ \E c \in CashSet : broker = PaperBroker(c, LoopFriction[1], LoopFriction[2])
    /\ call = NoCall(broker)
    /\ \E m \in MinBarsSet, st \in StopsSet :
          strategy = [min_history_bars |-> m, stops |-> st]
    /\ risk_manager = <<RiskManager(Frac(1, 10), Frac(1, 10))>>
    /\ \E n \in 1..MaxBars : \E rows \in [1..n -> RowSet] :
          LET close == sanitize([k \in 1..n |-> rows[k][1]])
          IN  data = [k \in 1..n |->
                         [raw_close |-> rows[k][1], close |-> close[k],
                          low |-> rows[k][2], high |-> rows[k][3]]]
    /\ i = 0
    /\ pc = "top"
    /\ bar = NoBar(broker)
    /\ equity_values = <<>>

Config == UNCHANGED <<strategy, risk_manager, data>>

BadClose(close) == ~IsFinite(close) \/ Le(close, R(0))

\* lines 44-55: read the bar; a bad close records the equity at the previous
\* close and continues with the next bar
BadBar ==
    /\ pc = "top"
    /\ i < Len(data)
    /\ BadClose(data[i + 1].close)
    /\ \E weight \in LoopWeightSet :
          bar' = Bar(data[i + 1].high, data[i + 1].low, data[i + 1].close, weight,
                     data[i + 1].raw_close, Snapshot(broker))
    /\ equity_values' =
          Append(equity_values,
                 equity(broker, equity_price_of([k \in 1..Len(data) |-> data[k].close], i)))
    /\ i' = i + 1
    /\ call' = Call(0, "none", "-", 0, None, None, 0, FALSE, Snapshot(broker))
    /\ UNCHANGED <<broker, pc>>
    /\ Config

\* lines 44-95: read the bar; with a valid close, process the intrabar stops
StopStep ==
    /\ pc = "top"
    /\ i < Len(data)
    /\ ~BadClose(data[i + 1].close)
    /\ \E weight \in LoopWeightSet :
          bar' = Bar(data[i + 1].high, data[i + 1].low, data[i + 1].close, weight,
                     data[i + 1].raw_close, Snapshot(broker))
    /\ broker' = stop_step(broker, strategy.stops, data[i + 1].high, data[i + 1].low)
    /\ call' = IF Len(broker'.fills) # Len(broker.fills)
               THEN Call(0, "close_position", "-", 0,
                         intrabar_stop(strategy.stops[1], PositionOf(broker).quantity,
                                       PositionOf(broker).average_price,
                                       data[i + 1].high, data[i + 1].low)[2],
                         None, 0, FALSE, Snapshot(broker))
               ELSE Call(0, "none", "-", 0, None, None, 0, FALSE, Snapshot(broker))
    /\ pc' = "rebalance"
    /\ UNCHANGED <<i, equity_values>>
    /\ Config

\* the warm-up test that is never false
enough_history_always(idx, min_bars) == TRUE

\* line 98: signals are allowed only after enough history
enough_history(idx, min_bars) == idx + 1 >= min_bars

\* lines 97-101: rebalance at the close once enough history is seen, then
\* record the equity at the close
RebalanceStep ==
    /\ pc = "rebalance"
    /\ IF enough_history(i, strategy.min_history_bars)
       THEN LET weight == effective_weight(broker, risk_manager, bar.close, bar.weight)
            IN  /\ broker' = rebalance_to_target_weight(broker, weight, bar.close)
                /\ call' = Call(0, "rebalance_to_target_weight", "-", 0, bar.close, weight,
                                delta_shares_of(broker, weight, bar.close), FALSE,
                                Snapshot(broker))
       ELSE /\ broker' = broker
            /\ call' = Call(0, "none", "-", 0, None, None, 0, FALSE, Snapshot(broker))
    /\ equity_values' = Append(equity_values, equity(broker', bar.close))
    /\ i' = i + 1
    /\ pc' = "top"
    /\ UNCHANGED bar
    /\ Config

\* lines 103-109: the loop is over, the result is returned
Return ==
    /\ pc = "top"
    /\ i = Len(data)
    /\ pc' = "done"
    /\ UNCHANGED <<broker, call, i, bar, equity_values>>
    /\ Config

NextLoop == BadBar \/ StopStep \/ RebalanceStep \/ Return

LoopSpec == InitLoop /\ [][NextLoop]_vars

\* ------------------------------------------- the risk overlay on its own
\* portfolios handed to adjust_weight: no position, a flat one, and long and
\* short ones with a valid or an invalid average_price
RiskPositionsSet ==
    {<<>>} \cup
    { [s \in {symbol} |-> Position(q, a)] :
          q \in {-3, 3}, a \in {R(100), R(0), NaN} } \cup
    { [s \in {symbol} |-> Position(0, R(0))] }

RiskPctSet == {None, Frac(1, 10)}

RiskPriceSet == {R(80), R(100), R(120)}

InitRisk ==
    /\ \E c \in CashSet, ps \in RiskPositionsSet :
          broker = [PaperBroker(c, R(0), R(0)) EXCEPT !.portfolio.positions = ps]
    /\ call = NoCall(broker)
    /\ strategy = [min_history_bars |-> 0, stops |-> <<>>]
    /\ \E sl \in RiskPctSet, tp \in RiskPctSet : risk_manager = <<RiskManager(sl, tp)>>
    /\ data = <<>>
    /\ i = 0
    /\ pc = "risk"
    /\ \E price \in RiskPriceSet, weight \in LoopWeightSet :
          bar = Bar(NaN, NaN, price, weight, price, Snapshot(broker))
    /\ equity_values = <<>>

\* one call adjust_weight(portfolio, symbol, bar.close, bar.weight); the
\* returned weight is kept in call.weight
AdjustWeightCall ==
    /\ pc = "risk"
    /\ call' = Call(1, "adjust_weight", "-", 0, bar.close,
                    adjust_weight(risk_manager[1], broker.portfolio, bar.close, bar.weight),
                    0, FALSE, Snapshot(broker))
    /\ pc' = "adjusted"
    /\ UNCHANGED <<broker, strategy, risk_manager, data, i, bar, equity_values>>

NextRisk == AdjustWeightCall

RiskSpec == InitRisk /\ [][NextRisk]_vars

\* ================================================================== claims
\* the last fill of the broker, and the signed share delta it carries
LastFill == broker.fills[Len(broker.fills)]

LastDelta == IF LastFill.side = BUY THEN LastFill.quantity ELSE -LastFill.quantity

Traded == Len(broker.fills) = call.before.nfills + 1

Untouched ==
    /\ Len(broker.fills) = call.before.nfills
    /\ broker.portfolio.cash = call.before.cash
    /\ PositionOf(broker).quantity = call.before.quantity
    /\ PositionOf(broker).average_price = call.before.average_price

\* C1: after any sequence of BUY/SELL trades applied to a position that
\* starts flat, quantity is zero exactly when average_price is zero.
C1_FlatIffNoBasis ==
    pc = "api" =>
        (PositionOf(broker).quantity = 0 <=> PositionOf(broker).average_price = R(0))

\* C1 witness: a position that was opened and then brought back to flat
C1_Witness ==
    /\ pc = "api"
    /\ Traded
    /\ call.before.quantity # 0
    /\ PositionOf(broker).quantity = 0
    /\ PositionOf(broker).average_price = R(0)

\* C2: average_price is never negative after broker trades (openings,
\* additions, reductions, closes and reversals on either side, with
\* slippage applied to the execution price).
C2_BasisNonNegative ==
    pc = "api" => Ge(PositionOf(broker).average_price, R(0))

\* C2 witness: a short position that was added to under slippage
C2_Witness ==
    /\ pc = "api"
    /\ Traded
    /\ broker.slippage_bps # R(0)
    /\ call.before.quantity < 0
    /\ PositionOf(broker).quantity < call.before.quantity
    /\ Gt(PositionOf(broker).average_price, R(0))

\* the case of C3: the fill is opposite to a non-flat position and does not
\* bring it exactly to zero
C3_Case ==
    /\ pc = "api"
    /\ Traded
    /\ call.before.quantity # 0
    /\ Sgn(LastDelta) = -Sgn(call.before.quantity)
    /\ call.before.quantity + LastDelta # 0

\* C3: for such a fill quantity becomes prior + delta; average_price is reset
\* to the fill's execution price when the sign of the quantity changes
\* (reversal) and is unchanged when the sign is kept (partial reduction).
C3_ReduceOrReverse ==
    C3_Case =>
        /\ PositionOf(broker).quantity = call.before.quantity + LastDelta
        /\ Sgn(PositionOf(broker).quantity) # Sgn(call.before.quantity)
              => PositionOf(broker).average_price = LastFill.price
        /\ Sgn(PositionOf(broker).quantity) = Sgn(call.before.quantity)
              => PositionOf(broker).average_price = call.before.average_price

\* C3 witness: a reversal whose execution price differs from the old basis
C3_Witness ==
    /\ C3_Case
    /\ Sgn(PositionOf(broker).quantity) # Sgn(call.before.quantity)
    /\ LastFill.price # call.before.average_price
    /\ PositionOf(broker).average_price = LastFill.price

\* C4: every Fill of the fill list has quantity > 0, and a rebalance whose
\* delta_shares is 0, or an apply_trade of quantity 0, appends no Fill and
\* leaves cash, quantity and average_price unchanged.
C4_NoZeroFill ==
    pc = "api" =>
        /\ \A k \in 1..Len(broker.fills) : broker.fills[k].quantity > 0
        /\ (call.op = "rebalance_to_target_weight" /\ call.delta_shares = 0) => Untouched
        /\ (call.op = "apply_trade" /\ call.quantity = 0) => Untouched

\* C4 witness: a zero-delta rebalance of a broker that holds a position
C4_Witness ==
    /\ pc = "api"
    /\ call.op = "rebalance_to_target_weight"
    /\ call.delta_shares = 0
    /\ call.before.quantity # 0
    /\ call.before.nfills > 0
    /\ Untouched

\* C5 as stated: the second of two consecutive rebalance calls with the same
\* (weight, price) appends no Fill and changes neither cash nor the position,
\* for every slippage_bps and commission_rate.
C5_Original == (pc = "api" /\ call.repeat) => Untouched

\* C5 amended: with slippage_bps = 0 and commission_rate = 0 the second of
\* two consecutive rebalance calls with the same (weight, price) appends no
\* Fill and changes neither cash nor the position.
C5_IdempotentFrictionless ==
    (pc = "api" /\ call.repeat /\ broker.slippage_bps = R(0) /\ broker.commission_rate = R(0))
        => Untouched

\* C5 witness: a frictionless repeat call after a first call that traded
C5_Witness ==
    /\ pc = "api"
    /\ call.repeat
    /\ broker.slippage_bps = R(0)
    /\ broker.commission_rate = R(0)
    /\ Len(broker.fills) > 0
    /\ PositionOf(broker).quantity # 0
    /\ Untouched

\* ------------------------------------------------------ claims on the loop
InLoop == pc \in {"top", "rebalance", "done"}

\* C6: the equity recorded for a bar with a bad close (not finite or <= 0)
\* equals the equity recorded for the previous bar, also when that bar was
\* bad and a position is open, and equals 0 when the bad bar is the first.
C6_CarryForward ==
    InLoop =>
        \A k \in 1..Len(equity_values) :
            BadClose(data[k].close) =>
                equity_values[k] = IF k = 1 THEN R(0) ELSE equity_values[k - 1]

\* the broker holds what it held when the current bar was read
BarUntouched ==
    /\ Len(broker.fills) = bar.start.nfills
    /\ broker.portfolio.cash = bar.start.cash
    /\ PositionOf(broker).quantity = bar.start.quantity
    /\ PositionOf(broker).average_price = bar.start.average_price

\* C7: on a bar whose input close is non-finite or <= 0 no stop check and no
\* rebalance is performed: cash, quantity, average_price and the fill list
\* are the same before and after the bar, whatever high, low and weight are.
C7_BadInputBarFrame ==
    (InLoop /\ (i > 0 \/ pc = "rebalance") /\ BadClose(bar.raw_close)) => BarUntouched

\* the thresholds of the position held when the bar was read
StopsOn == strategy.stops # <<>> /\ bar.start.quantity # 0

StopLossThreshold ==
    IF bar.start.quantity > 0
    THEN Mul(bar.start.average_price, Sub(R(1), strategy.stops[1].stop_loss_pct))
    ELSE Mul(bar.start.average_price, Add(R(1), strategy.stops[1].stop_loss_pct))

TakeProfitThreshold ==
    IF bar.start.quantity > 0
    THEN Mul(bar.start.average_price, Add(R(1), strategy.stops[1].take_profit_pct))
    ELSE Mul(bar.start.average_price, Sub(R(1), strategy.stops[1].take_profit_pct))

StopLossTouched ==
    /\ StopsOn
    /\ IF bar.start.quantity > 0 THEN Le(bar.low, StopLossThreshold)
       ELSE Ge(bar.high, StopLossThreshold)

TakeProfitTouched ==
    /\ StopsOn
    /\ IF bar.start.quantity > 0 THEN Ge(bar.high, TakeProfitThreshold)
       ELSE Le(bar.low, TakeProfitThreshold)

\* the fill of a trade of the whole position held at the start of the bar,
\* made by close_position(price)
FlattenedAt(price) ==
    /\ Len(broker.fills) = bar.start.nfills + 1
    /\ LastFill.quantity = Abs(bar.start.quantity)
    /\ LastFill.side = IF bar.start.quantity > 0 THEN SELL ELSE BUY
    /\ LastFill.price = slip_price_of(broker, LastFill.side, price)

\* C8: when the stop-loss or the take-profit of a non-flat position is
\* touched intrabar, the whole position is flattened by close_position at
\* exactly the threshold derived from average_price, and the position is
\* flat before the rebalance step of the bar runs.
C8_ExitAtThreshold ==
    (pc = "rebalance" /\ (StopLossTouched \/ TakeProfitTouched)) =>
        /\ call.op = "close_position"
        /\ FlattenedAt(IF StopLossTouched THEN StopLossThreshold ELSE TakeProfitThreshold)
        /\ PositionOf(broker).quantity = 0

\* C8 witness: a take-profit exit whose threshold is neither the high, the
\* low nor the close of the bar
C8_Witness ==
    /\ pc = "rebalance"
    /\ TakeProfitTouched
    /\ ~StopLossTouched
    /\ TakeProfitThreshold \notin {bar.high, bar.low, bar.close}
    /\ FlattenedAt(TakeProfitThreshold)
    /\ PositionOf(broker).quantity = 0

\* C9: when both thresholds are touched within one bar, for a long and for a
\* short position, the exit is made at the stop-loss threshold and not at
\* the take-profit threshold, and only one flatten trade is executed.
C9_StopLossFirst ==
    (pc = "rebalance" /\ StopLossTouched /\ TakeProfitTouched) =>
        /\ FlattenedAt(StopLossThreshold)
        /\ ~FlattenedAt(TakeProfitThreshold)
        /\ PositionOf(broker).quantity = 0

\* C9 witness: a short position with both thresholds touched, closed by one
\* BUY at the stop-loss threshold
C9_Witness ==
    /\ pc = "rebalance"
    /\ bar.start.quantity < 0
    /\ StopLossTouched
    /\ TakeProfitTouched
    /\ FlattenedAt(StopLossThreshold)

\* the portfolio the rebalance step started from
PortfolioBefore ==
    [cash |-> call.before.cash,
     positions |-> [s \in {symbol} |->
                       Position(call.before.quantity, call.before.average_price)]]

\* C10: on a valid-close bar past the warm-up, with a RiskOverlay configured,
\* the weight handed to rebalance_to_target_weight is adjust_weight applied
\* to the position as it stands after the stop step; when that overlay
\* forces 0 on an open position the bar ends flat.
C10_OverlayApplied ==
    (pc = "top" /\ call.op = "rebalance_to_target_weight" /\ risk_manager # <<>>) =>
        LET adjusted == adjust_weight(risk_manager[1], PortfolioBefore, bar.close, bar.weight)
        IN  /\ call.weight = adjusted
            /\ (call.before.quantity # 0 /\ adjusted = R(0))
                  => PositionOf(broker).quantity = 0

\* ------------------------------------------------ claims on the overlay
\* the position adjust_weight was called on
RiskPosition ==
    IF symbol \in DOMAIN broker.portfolio.positions
    THEN broker.portfolio.positions[symbol] ELSE Position(0, R(0))

\* a configured threshold of the overlay is triggered at bar.close
RiskTriggered ==
    LET rm == risk_manager[1]
        avg == RiskPosition.average_price
        lo(pct) == pct # None /\ Le(bar.close, Mul(avg, Sub(R(1), pct)))
        hi(pct) == pct # None /\ Ge(bar.close, Mul(avg, Add(R(1), pct)))
    IN  IF RiskPosition.quantity > 0
        THEN lo(rm.stop_loss_pct) \/ hi(rm.take_profit_pct)
        ELSE hi(rm.stop_loss_pct) \/ lo(rm.take_profit_pct)

\* the only case in which the overlay may change the weight
RiskForced ==
    /\ RiskPosition.quantity # 0
    /\ IsFinite(RiskPosition.average_price)
    /\ Gt(RiskPosition.average_price, R(0))
    /\ RiskTriggered
    /\ \/ bar.weight = R(0)
       \/ Sgn(bar.weight[1]) = Sgn(RiskPosition.quantity)

\* C11: adjust_weight returns 0 when the position is non-flat with a
\* positive finite average_price, a configured threshold is triggered at the
\* price and the requested weight is zero or has the position's sign; in
\* every other case it returns requested_weight unchanged.
C11_AdjustWeight ==
    pc = "adjusted" => call.weight = IF RiskForced THEN R(0) ELSE bar.weight

\* C11 witness: a triggered stop that turns a same-sign request into 0
C11_Witness ==
    /\ pc = "adjusted"
    /\ RiskForced
    /\ bar.weight # R(0)
    /\ call.weight = R(0)

\* ------------------------------------------- further claims on the broker
\* C12: the fill list is append-only and order_id is strictly increasing in
\* append order: a step appends at most one Fill, whose order_id is greater
\* than that of every earlier Fill, and leaves the earlier Fills as they were.
C12_AppendOnly == [][
    pc = "api" =>
        /\ Len(broker'.fills) \in {Len(broker.fills), Len(broker.fills) + 1}
        /\ \A k \in 1..Len(broker.fills) : broker'.fills[k] = broker.fills[k]
        /\ Len(broker'.fills) = Len(broker.fills) + 1 =>
              \A k \in 1..Len(broker.fills) :
                  broker'.fills[Len(broker'.fills)].order_id > broker.fills[k].order_id
    ]_vars

\* C12 witness: three trades, three Fills with increasing order_id
C12_Witness ==
    /\ pc = "api"
    /\ Len(broker.fills) = 3
    /\ broker.fills[1].order_id < broker.fills[2].order_id
    /\ broker.fills[2].order_id < broker.fills[3].order_id

\* the case of C16: the fill opens a flat position or adds to the position
\* in its direction
C16_Case ==
    /\ pc = "api"
    /\ Traded
    /\ \/ call.before.quantity = 0
       \/ Sgn(LastDelta) = Sgn(call.before.quantity)

\* C16: for such a fill average_price_new * |quantity_new| equals
\* average_price_old * |quantity_old| + fill.price * |delta| with
\* |quantity_new| # 0; opening from flat yields the signed fill quantity and
\* the fill price.
C16_WeightedAverage ==
    C16_Case =>
        /\ PositionOf(broker).quantity = call.before.quantity + LastDelta
        /\ PositionOf(broker).quantity # 0
        /\ Mul(PositionOf(broker).average_price, R(Abs(PositionOf(broker).quantity)))
              = Add(Mul(call.before.average_price, R(Abs(call.before.quantity))),
                    Mul(LastFill.price, R(Abs(LastDelta))))
        /\ call.before.quantity = 0 =>
              /\ PositionOf(broker).quantity = LastDelta
              /\ PositionOf(broker).average_price = LastFill.price

\* C16 witness: an addition to a short position at a price off its basis
C16_Witness ==
    /\ C16_Case
    /\ call.before.quantity < 0
    /\ LastFill.price # call.before.average_price
    /\ PositionOf(broker).average_price # LastFill.price
    /\ PositionOf(broker).average_price # call.before.average_price

\* C17: for a nonzero trade with slippage_bps >= 0 and commission_rate >= 0
\* the execution price is >= the quote for a BUY and <= the quote for a SELL,
\* commission and slippage are non-negative, and cash changes by exactly
\* -(side_sign * |quantity| * execution_price) - commission.
C17_AdverseSlippage ==
    (pc = "api" /\ Traded) =>
        /\ LastFill.side = BUY => Ge(LastFill.price, call.price)
        /\ LastFill.side = SELL => Le(LastFill.price, call.price)
        /\ Ge(LastFill.commission, R(0))
        /\ Ge(LastFill.slippage, R(0))
        /\ broker.portfolio.cash =
              Sub(Sub(call.before.cash, Mul(R(LastDelta), LastFill.price)),
                  LastFill.commission)

\* C17 witness: a SELL with frictions: executed below the quote, commission
\* charged, cash up by less than the notional
C17_Witness ==
    /\ pc = "api"
    /\ Traded
    /\ LastFill.side = SELL
    /\ Lt(LastFill.price, call.price)
    /\ Gt(LastFill.commission, R(0))
    /\ Gt(LastFill.slippage, R(0))
    /\ Lt(broker.portfolio.cash,
          Add(call.before.cash, Mul(R(LastFill.quantity), LastFill.price)))

\* weight * equity_before / price of the last rebalance call
TargetRatio ==
    Div(Mul(call.weight,
            Add(call.before.cash, Mul(R(call.before.quantity), call.price))),
        call.price)

ScenarioA ==
    /\ call.op = "rebalance_to_target_weight"
    /\ broker.slippage_bps = R(0)
    /\ broker.commission_rate = R(0)
    /\ call.before.nfills = 0
    /\ call.before.cash = R(100000)
    /\ call.weight = R(1)
    /\ call.price = R(100)

\* C18: after rebalance_to_target_weight(weight, price) the quantity is
\* floor(weight * equity_before / price), floor toward minus infinity also
\* for negative weights, reached with at most one trade (BUY for a positive
\* share delta, SELL for a negative one, of size |delta| at the price); with
\* no frictions, cash 100000, weight 1 and price 100 it is one BUY of 1000
\* shares that leaves cash 0.
C18_TargetShares ==
    (pc = "api" /\ call.op = "rebalance_to_target_weight") =>
        /\ Le(R(PositionOf(broker).quantity), TargetRatio)
        /\ Lt(TargetRatio, R(PositionOf(broker).quantity + 1))
        /\ Len(broker.fills) =
              call.before.nfills +
              (IF PositionOf(broker).quantity = call.before.quantity THEN 0 ELSE 1)
        /\ Traded =>
              /\ LastDelta = PositionOf(broker).quantity - call.before.quantity
              /\ LastFill.price = slip_price_of(broker, LastFill.side, call.price)
        /\ ScenarioA =>
              /\ Traded
              /\ LastFill.side = BUY
              /\ LastFill.quantity = 1000
              /\ LastFill.price = R(100)
              /\ PositionOf(broker).quantity = 1000
              /\ broker.portfolio.cash = R(0)

\* C18 witness: a negative weight whose share ratio is not whole, so that
\* floor and truncation differ
C18_Witness ==
    /\ pc = "api"
    /\ call.op = "rebalance_to_target_weight"
    /\ Lt(call.weight, R(0))
    /\ Traded
    /\ PositionOf(broker).quantity < 0
    /\ R(PositionOf(broker).quantity) # TargetRatio

\* C19: close_position(price) on a non-flat position executes exactly one
\* trade of size |quantity| on the opposite side at the price, after which
\* quantity and average_price are 0; on a flat position it executes no
\* trade and appends no Fill.
C19_ClosePosition ==
    (pc = "api" /\ call.op = "close_position") =>
        IF call.before.quantity # 0
        THEN /\ Traded
             /\ LastFill.quantity = Abs(call.before.quantity)
             /\ LastFill.side = IF call.before.quantity > 0 THEN SELL ELSE BUY
             /\ LastFill.price = slip_price_of(broker, LastFill.side, call.price)
             /\ PositionOf(broker).quantity = 0
             /\ PositionOf(broker).average_price = R(0)
        ELSE Untouched

\* C19 witness: a short position closed by one BUY
C19_Witness ==
    /\ pc = "api"
    /\ call.op = "close_position"
    /\ call.before.quantity < 0
    /\ Traded
    /\ LastFill.side = BUY
    /\ PositionOf(broker).quantity = 0

\* -------------------------------------------- further claims on the loop
\* C13: a run records exactly one equity value per bar, in bar order, bad
\* close and stop bars included, and the value recorded for a bar with a
\* valid close is cash + quantity * close after the stop-flatten and the
\* rebalance of that bar.
C13_EquityPerBar ==
    InLoop =>
        /\ Len(equity_values) = i
        /\ pc = "done" => Len(equity_values) = Len(data)
        /\ (pc # "rebalance" /\ i >= 1 /\ ~BadClose(bar.close)) =>
              equity_values[i] =
                  Add(broker.portfolio.cash,
                      Mul(R(PositionOf(broker).quantity), bar.close))

\* C13 witness: a completed run of three bars with a bad close among them
\* that ends on a valid close with a position open
C13_Witness ==
    /\ pc = "done"
    /\ Len(equity_values) = 3
    /\ \E k \in 1..Len(data) : BadClose(data[k].close)
    /\ ~BadClose(bar.close)
    /\ PositionOf(broker).quantity # 0
    /\ equity_values[3] # broker.portfolio.cash

\* C14 as stated: no bar appends more than one Fill
C14_Original ==
    InLoop => Len(broker.fills) <= bar.start.nfills + 1

\* C14: a bar appends at most two Fills, at most one by the stop-flatten and
\* at most one by the rebalance that follows it; a bar whose stops did not
\* trigger appends at most one.
C14_AtMostTwoFills ==
    InLoop =>
        /\ Len(broker.fills) <= bar.start.nfills + 2
        /\ pc = "rebalance" => Len(broker.fills) <= bar.start.nfills + 1
        /\ (pc # "rebalance" /\ call.op = "rebalance_to_target_weight") =>
              /\ Len(broker.fills) <= call.before.nfills + 1
              /\ call.before.nfills <= bar.start.nfills + 1
              /\ call.before.nfills = bar.start.nfills + 1 =>
                    /\ StopsOn
                    /\ call.before.quantity = 0

\* C14 witness: a bar on which the stop flattened the position and the
\* rebalance opened it again
C14_Witness ==
    /\ pc = "top"
    /\ i >= 1
    /\ Len(broker.fills) = bar.start.nfills + 2
    /\ bar.start.quantity # 0
    /\ PositionOf(broker).quantity # 0

\* every bar processed so far is a warm-up bar (index + 1 < min_history_bars)
WarmUp ==
    \/ pc \in {"top", "done"} /\ i < strategy.min_history_bars
    \/ pc = "rebalance" /\ i + 1 < strategy.min_history_bars

\* C20: during the warm-up no Fill is appended, the position is flat, cash
\* is initial_cash and the equity recorded on a bar with a valid close is
\* initial_cash; the first rebalance is on a bar with index + 1 >=
\* min_history_bars.
C20_WarmUp ==
    InLoop =>
        /\ WarmUp =>
              /\ broker.fills = <<>>
              /\ PositionOf(broker).quantity = 0
              /\ broker.portfolio.cash = broker.initial_cash
              /\ \A k \in 1..Len(equity_values) :
                    ~BadClose(data[k].close) => equity_values[k] = broker.initial_cash
        /\ call.op = "rebalance_to_target_weight" => i >= strategy.min_history_bars

\* C20 witness: two warm-up bars with a nonzero weight, a valid close and
\* stops configured
C20_Witness ==
    /\ pc = "top"
    /\ i = 2
    /\ strategy.min_history_bars = 3
    /\ strategy.stops # <<>>
    /\ bar.weight # R(0)
    /\ ~BadClose(data[1].close)
    /\ ~BadClose(data[2].close)
    /\ equity_values = <<broker.initial_cash, broker.initial_cash>>

\* ------------------------------------------------------- implicit claims
\* the equity of a snapshot marked at a price
MarkedBefore(price) ==
    Add(call.before.cash, Mul(R(call.before.quantity), price))

MarkedAfter(price) ==
    Add(broker.portfolio.cash, Mul(R(PositionOf(broker).quantity), price))

\* C21: every executed trade lowers the equity marked at the quoted price of
\* the trade by exactly the commission plus the slippage of its Fill, on
\* both sides and for openings, additions, reductions and reversals; with
\* no frictions the marked equity is unchanged.
C21_FrictionCost ==
    (pc = "api" /\ Traded) =>
        /\ MarkedAfter(call.price) =
              Sub(Sub(MarkedBefore(call.price), LastFill.commission), LastFill.slippage)
        /\ equity(broker, call.price) = MarkedAfter(call.price)
        /\ (broker.slippage_bps = R(0) /\ broker.commission_rate = R(0)) =>
              MarkedAfter(call.price) = MarkedBefore(call.price)

\* C21 witness: a reversal with frictions that costs commission and slippage
C21_Witness ==
    /\ pc = "api"
    /\ Traded
    /\ call.before.quantity # 0
    /\ PositionOf(broker).quantity # 0
    /\ Sgn(PositionOf(broker).quantity) # Sgn(call.before.quantity)
    /\ Gt(LastFill.commission, R(0))
    /\ Gt(LastFill.slippage, R(0))
    /\ Lt(MarkedAfter(call.price), MarkedBefore(call.price))

\* the case of C22: the bar has a valid close and enough history, its stop
\* step flattened the position, and the weight of the bar asks for a
\* nonzero number of shares at the close
C22_Case ==
    /\ pc = "top"
    /\ i >= 1
    /\ ~BadClose(bar.close)
    /\ i >= strategy.min_history_bars
    /\ bar.start.quantity # 0
    /\ call.op = "rebalance_to_target_weight"
    /\ call.before.nfills = bar.start.nfills + 1
    /\ call.before.quantity = 0
    /\ LET ratio == Div(Mul(bar.weight, call.before.cash), bar.close)
       IN  ~(Le(R(0), ratio) /\ Lt(ratio, R(1)))

\* C22: an intrabar stop does not keep the position flat at the end of the
\* bar: in that case the rebalance of the same bar opens a position again at
\* the close with the weight of the bar unchanged, and the bar ends non-flat
\* with two Fills appended.
C22_ReopenAfterStop ==
    C22_Case =>
        /\ call.weight = bar.weight
        /\ PositionOf(broker).quantity # 0
        /\ Len(broker.fills) = bar.start.nfills + 2
        /\ LastFill.price = slip_price_of(broker, LastFill.side, bar.close)
        /\ LastFill.quantity = Abs(PositionOf(broker).quantity)

\* C22 witness: a short position stopped out and opened long at the close of
\* the same bar
C22_Witness ==
    /\ C22_Case
    /\ bar.start.quantity < 0
    /\ PositionOf(broker).quantity > 0
    /\ Len(broker.fills) = bar.start.nfills + 2
    /\ broker.fills[Len(broker.fills) - 1].side = BUY
    /\ LastFill.side = BUY

====
